---- MODULE Spec2Model ----
(***************************************************************************)
(* Model of the relay server in server/src/main.c: the client registry     *)
(* (a doubly linked list, newest first), the pending request list with     *)
(* its libuv timers, and the message router process_message.               *)
(*                                                                         *)
(* A client node is named by the id it was given (one node per id), a      *)
(* pending request by its request id.  NULL is the null pointer.  libuv    *)
(* is modelled by what its documentation promises: uv_close marks a        *)
(* handle closing and its close callback runs later, so other handlers     *)
(* may run while a stream or a timer is closing; a timer fires only        *)
(* while it is active.                                                     *)
(***************************************************************************)
EXTENDS Integers, Sequences, FiniteSets, TLC

\* ---------------------------------------------------------------- bounds
\* Accepts and requests the model follows (caps on the two id counters).
MaxClients == 3
MaxRequests == 2
\* Requests followed when clients also rename themselves (SpecNames).
MaxNamedRequests == 1
\* Requests followed when their forwarding is recorded (SpecOrphans).
MaxTrackedRequests == 1
\* Requests followed when clients also send unrouted events (SpecImplicit).
MaxImplicitRequests == 1
\* Length of the long display name a client may choose.
LongNameLen == 100

\* Bytes a client may send in all, and in one read, on the one connection
\* whose read buffer is followed (SpecRing).
MaxStream == 8
MaxChunk == 4
\* Scaled sizes of the read buffer: BufferSize stands for the 1024 bytes
\* add_client gives cb_init, MAX_BUFFER_SIZE for the 10 MB of main.c.
BufferSize == 3
MAX_BUFFER_SIZE == 6

\* ------------------------------------------------------ program constants
NULL == -1
\* char msg[128] in remove_client
MsgBufSize == 128

\* ------------------------------------------------------------------ state
VARIABLES
    next_client_id,   \* int next_client_id
    clients_head,     \* client_node_t *clients_head
    nodes,            \* the allocated client_node_t, by node
    closing,          \* client streams on which uv_close has been called
    next_request_id,  \* int next_request_id
    requests_head,    \* pending_request_t *requests_head
    reqs,             \* the allocated pending_request_t, by request
    timers,           \* the uv_timer_t of each allocated request
    resolved,         \* history: how each request left the pending list
    forwarded,        \* history: the node each tracked request was written to
    sent,             \* what the last handler wrote: <<[dest, msg]>>
    last,             \* history: the handler libuv called last, its arguments
    cb_build,         \* which definition of the cb_ functions the build took
    cb,               \* circular_buffer buffer of one client node
    stream,           \* history: the bytes on_read was given for that node
    delivered,        \* history: the strings on_read gave process_message
    kicked            \* uv_close has been called on that node's stream

server == <<next_client_id, clients_head, nodes, closing, next_request_id,
            requests_head, reqs, timers, resolved, forwarded, sent, last>>
ring == <<cb_build, cb, stream, delivered, kicked>>
vars == <<server, ring>>

\* ------------------------------------------------------- JSON documents
\* A cJSON object is its list of members; a member has a key and a typed
\* value (t is "str", "num" or "bool"; n the number or 0/1, s the string).
JStr(k, s) == [k |-> k, t |-> "str", n |-> 0, s |-> s]
JNum(k, n) == [k |-> k, t |-> "num", n |-> n, s |-> ""]
JBool(k, b) == [k |-> k, t |-> "bool", n |-> IF b THEN 1 ELSE 0, s |-> ""]
NoItem == [k |-> "", t |-> "none", n |-> 0, s |-> ""]

RECURSIVE cJSON_GetObjectItemCaseSensitive(_, _)
cJSON_GetObjectItemCaseSensitive(doc, k) ==
    IF doc = <<>> THEN NoItem
    ELSE IF Head(doc).k = k THEN Head(doc)
    ELSE cJSON_GetObjectItemCaseSensitive(Tail(doc), k)

cJSON_AddItem(doc, item) == Append(doc, item)

RECURSIVE cJSON_DeleteItemFromObjectCaseSensitive(_, _)
cJSON_DeleteItemFromObjectCaseSensitive(doc, k) ==
    IF doc = <<>> THEN <<>>
    ELSE IF Head(doc).k = k THEN Tail(doc)
    ELSE <<Head(doc)>> \o cJSON_DeleteItemFromObjectCaseSensitive(Tail(doc), k)

cJSON_IsString(item) == item.t = "str"
cJSON_IsNumber(item) == item.t = "num"
cJSON_IsBool(item) == item.t = "bool"
cJSON_IsTrue(item) == item.t = "bool" /\ item.n = 1

\* What is written to a stream: the text of a document followed by a
\* newline (stringify_json), or a raw string built by snprintf.
stringify_json(doc) == [doc |-> doc, raw |-> ""]
RawMsg(s) == [doc |-> <<>>, raw |-> s]

\* snprintf(msg, size, fmt, ...): the formatted text cut to size - 1
snprintf(size, text) ==
    IF Len(text) <= size - 1 THEN text ELSE SubSeq(text, 1, size - 1)

NewHostText(name) == "{\"event\":\"new_host\",\"name\":\"" \o name \o "\"}\n"

\* ------------------------------------------------------------ the names
RECURSIVE Repeat(_, _)
Repeat(s, n) == IF n = 0 THEN "" ELSE s \o Repeat(s, n - 1)
DefaultName == "Jaakko"
LongName == Repeat("x", LongNameLen)
InNames == {LongName}

\* ------------------------------------------------------ the client list
\* The nodes reached from iter by next, in order (fuel stops a walk of a
\* corrupted list).
RECURSIVE Walk(_, _, _)
Walk(ns, iter, fuel) ==
    IF iter = NULL \/ iter \notin DOMAIN ns \/ fuel = 0 THEN <<>>
    ELSE <<iter>> \o Walk(ns, ns[iter].next, fuel - 1)

ClientList(head, ns) == Walk(ns, head, MaxClients + 1)
Range(s) == {s[i] : i \in DOMAIN s}
Registry == Range(ClientList(clients_head, nodes))

\* uv_is_closing(dest) is dest \in cl
send_message(cl, dest, msg) ==
    IF dest \in cl THEN <<>> ELSE <<[dest |-> dest, msg |-> msg]>>

RECURSIVE BroadcastFrom(_, _, _, _, _, _)
BroadcastFrom(ns, cl, iter, sender, msg, fuel) ==
    IF iter = NULL \/ iter \notin DOMAIN ns \/ fuel = 0 THEN <<>>
    ELSE (IF sender = NULL \/ iter # sender
            THEN send_message(cl, iter, msg) ELSE <<>>)
         \o BroadcastFrom(ns, cl, ns[iter].next, sender, msg, fuel - 1)

\* broadcast_message without the comparison with sender: everyone gets it.
broadcast_message_to_all(head, ns, cl, sender, msg) ==
    BroadcastFrom(ns, cl, head, NULL, msg, MaxClients + 1)

broadcast_message(head, ns, cl, sender, msg) ==
    BroadcastFrom(ns, cl, head, sender, msg, MaxClients + 1)

RECURSIVE FindFrom(_, _, _, _)
FindFrom(ns, iter, id, fuel) ==
    IF iter = NULL \/ iter \notin DOMAIN ns \/ fuel = 0 THEN NULL
    ELSE IF ns[iter].id = id THEN iter
    ELSE FindFrom(ns, ns[iter].next, id, fuel - 1)

find_client_stream_by_id(head, ns, id) == FindFrom(ns, head, id, MaxClients + 1)

\* --------------------------------------------------- the circular buffer
\* The source holds two definitions of the cb_ functions: the ones of
\* utils.c, declared in utils.h with the field amount, and an older copy
\* in main.c.  The functions of utils.c keep their names here, those of
\* main.c are prefixed main_, and cb_build says which ones on_read calls.
\*
\* A buffer is the record of its fields, pointers being offsets from
\* cb->buffer (buffer_end is size).  A byte is "a", "\n" or "?": a byte
\* of allocated memory that was never written, which may or may not
\* compare equal to a newline.  tmp is NULL whenever on_read returns and
\* is left out.  amount is a size_t; within the bounds followed here no
\* subtraction takes it below zero, so plain integers stand for it.
Byte == {"a", "\n"}

cb_init(size) ==
    [buffer |-> [i \in 0..(size - 1) |-> "?"], size |-> size,
     head |-> 0, tail |-> 0, amount |-> 0]

\* memcpy(buffer + at, data, Len(data))
memcpy(buffer, at, data) ==
    [i \in DOMAIN buffer |->
        IF at <= i /\ i < at + Len(data) THEN data[i - at + 1] ELSE buffer[i]]

\* The bytes of buffer at from .. to, in order
Cells(buffer, from, to) == [i \in 1..(to - from + 1) |-> buffer[from + i - 1]]

\* memchr(buffer + from, '\n', n): the offsets it may return (NULL: none)
memchr(buffer, from, n) ==
    LET range == from..(from + n - 1)
    IN  {p \in range : /\ buffer[p] \in {"\n", "?"}
                       /\ \A q \in range : q < p => buffer[q] # "\n"}
        \cup (IF \A q \in range : buffer[q] # "\n" THEN {NULL} ELSE {})

\* The head after data was copied to it, around the end if it must be
PushedHead(c, data) ==
    IF c.head + Len(data) > c.size
      THEN Len(data) - (c.size - c.head)
      ELSE c.head + Len(data)

PushedBuffer(c, data) ==
    IF c.head + Len(data) > c.size
      THEN LET first_portion == c.size - c.head
           IN  memcpy(memcpy(c.buffer, c.head, SubSeq(data, 1, first_portion)),
                      0, SubSeq(data, first_portion + 1, Len(data)))
      ELSE memcpy(c.buffer, c.head, data)

cb_push_data(c, data) ==
    [c EXCEPT !.amount = c.amount + Len(data),
              !.buffer = PushedBuffer(c, data),
              !.head = PushedHead(c, data)]

main_cb_push_data(c, data) ==
    [c EXCEPT !.buffer = PushedBuffer(c, data),
              !.tail = c.head,
              !.head = PushedHead(c, data)]

\* realloc keeps the old bytes; the added ones were never written
cb_realloc(c, new_size) ==
    [c EXCEPT !.buffer = [i \in 0..(new_size - 1) |->
                            IF i < c.size THEN c.buffer[i] ELSE "?"],
              !.size = new_size]

\* What cb_get_string returns: a string, or NULL (found is FALSE)
NoString(c) == [found |-> FALSE, str |-> <<>>, cb |-> c]
String(str, c) == [found |-> TRUE, str |-> str, cb |-> c]

\* The offsets the memchr of cb_get_string may return for buffer c
cb_get_string_scan(c) ==
    IF c.tail > c.head THEN memchr(c.buffer, 0, c.head)
    ELSE memchr(c.buffer, c.tail, c.head - c.tail)

\* cb_get_string, its memchr having returned pos, then cb_clean_string
cb_get_string(c, pos) ==
    IF pos = NULL THEN NoString(c)
    ELSE IF c.tail > c.head
      THEN LET first_portion == c.size - c.tail
               second_portion == pos + 1
               tmp == Cells(c.buffer, c.tail, c.size - 1)
                      \o Cells(c.buffer, 0, pos)
           IN  String(SubSeq(tmp, 1, first_portion + second_portion - 1),
                      [c EXCEPT !.tail = pos + 1,
                                !.amount = c.amount - (first_portion
                                              + second_portion)])
      ELSE String(Cells(c.buffer, c.tail, pos - 1),
                  [c EXCEPT !.buffer[pos] = "\n",
                            !.amount = c.amount - (pos - c.tail + 1),
                            !.tail = pos + 1])

main_cb_get_string_scan(c) ==
    IF c.tail > c.head THEN memchr(c.buffer, 0, c.head)
    ELSE memchr(c.buffer, c.tail, c.size - c.tail)

\* main.c: tail stays; the wrapped string is cut at tmp + second_portion
main_cb_get_string(c, pos) ==
    IF pos = NULL THEN NoString(c)
    ELSE IF c.tail > c.head
      THEN LET second_portion == pos
               tmp == Cells(c.buffer, c.tail, c.size - 1)
                      \o Cells(c.buffer, 0, pos - 1)
           IN  String(SubSeq(tmp, 1, second_portion), c)
      ELSE String(Cells(c.buffer, c.tail, pos - 1),
                  [c EXCEPT !.buffer[pos] = "\n"])

\* The loop of on_read that doubles the capacity while nread > size
RECURSIVE grow_buffer(_, _)
grow_buffer(c, nread) ==
    IF nread > c.size THEN grow_buffer(cb_realloc(c, c.size * 2), nread)
    ELSE c

\* ------------------------------------------------------------------ init
\* The record kept in last: op names the handler, c its stream, r its
\* timer's request, frame the frame on_read handed to process_message.
NoFrame == [ok |-> FALSE, doc |-> <<>>]
Called(op, c, r, frame) == [op |-> op, c |-> c, r |-> r, frame |-> frame]

InitRegistry ==
    /\ next_client_id = 0
    /\ clients_head = NULL
    /\ nodes = <<>>
    /\ closing = {}
    /\ next_request_id = 0
    /\ requests_head = NULL
    /\ reqs = <<>>
    /\ timers = <<>>
    /\ resolved = [r \in 0..(MaxRequests - 1) |-> <<>>]
    /\ sent = <<>>
    /\ last = Called("main", NULL, NULL, NoFrame)

\* No request's forwarding is recorded
InitServer == InitRegistry /\ forwarded = <<>>

\* The node whose read buffer is followed, as add_client leaves it
InitBuffer(build) ==
    /\ cb_build = build
    /\ cb = cb_init(BufferSize)
    /\ stream = <<>>
    /\ delivered = <<>>
    /\ kicked = FALSE

Init == InitServer /\ InitBuffer("utils.c")

\* ---------------------------------------------------------- add_client
UserJoined(node, ns) ==
    stringify_json(<<JStr("event", "user_joined"), JNum("id", ns[node].id),
                     JStr("name", ns[node].name),
                     JBool("is_host", ns[node].is_host = 1)>>)

\* add_client giving the new node the smallest id no live node holds.
add_client_recycle(head, ns, id) ==
    LET free == CHOOSE i \in 0..id : i \notin DOMAIN ns
                                     /\ \A j \in 0..(i - 1) : j \in DOMAIN ns
        node == [id |-> free, is_host |-> IF head = NULL THEN 1 ELSE 0,
                 name |-> DefaultName, next |-> head, prev |-> NULL]
        linked == IF head = NULL THEN ns ELSE [ns EXCEPT ![head].prev = free]
    IN  [head |-> free,
         ns |-> [n \in DOMAIN linked \cup {free} |->
                    IF n = free THEN node ELSE linked[n]]]

\* The registry after add_client links a node for a new stream.
add_client(head, ns, id) ==
    LET node == [id |-> id, is_host |-> IF head = NULL THEN 1 ELSE 0,
                 name |-> DefaultName, next |-> head, prev |-> NULL]
        linked == IF head = NULL THEN ns ELSE [ns EXCEPT ![head].prev = id]
    IN  [head |-> id,
         ns |-> [n \in DOMAIN linked \cup {id} |->
                    IF n = id THEN node ELSE linked[n]]]

\* on_new_connection, the accept succeeding
OnNewConnection ==
    /\ last' = Called("on_new_connection", NULL, NULL, NoFrame)
    /\ next_client_id < MaxClients
    /\ LET a == add_client(clients_head, nodes, next_client_id)
       IN  /\ clients_head' = a.head
           /\ nodes' = a.ns
           /\ sent' = broadcast_message(a.head, a.ns, closing, a.head,
                                        UserJoined(a.head, a.ns))
    /\ next_client_id' = next_client_id + 1
    /\ UNCHANGED <<closing, next_request_id, requests_head, reqs, timers,
                   resolved, forwarded>>
    /\ UNCHANGED ring

\* ------------------------------------------------- the pending requests
\* The pending list as one value: P.head, P.reqs, P.timers, P.resolved.
PendingState ==
    [head |-> requests_head, reqs |-> reqs, timers |-> timers,
     resolved |-> resolved]

RequestList(head, rs) == Walk(rs, head, MaxRequests + 1)
Pending == Range(RequestList(requests_head, reqs))

add_pending_request(P, req) ==
    LET linked == IF P.head # NULL
                    THEN [P.reqs EXCEPT ![P.head].prev = req.request_id]
                    ELSE P.reqs
        r == req.request_id
    IN  [P EXCEPT !.head = r,
                  !.reqs = [q \in DOMAIN linked \cup {r} |->
                              IF q = r THEN [req EXCEPT !.next = P.head,
                                                        !.prev = NULL]
                              ELSE linked[q]]]

\* unlink_pending_request that never moves requests_head.
unlink_pending_request_keep_head(P, r) ==
    LET q == P.reqs[r]
        r1 == IF q.prev # NULL /\ q.prev \in DOMAIN P.reqs
                THEN [P.reqs EXCEPT ![q.prev].next = q.next] ELSE P.reqs
        r2 == IF q.next # NULL /\ q.next \in DOMAIN r1
                THEN [r1 EXCEPT ![q.next].prev = q.prev] ELSE r1
    IN  [P EXCEPT !.reqs = r2]

unlink_pending_request(P, r) ==
    LET q == P.reqs[r]
        r1 == IF q.prev # NULL /\ q.prev \in DOMAIN P.reqs
                THEN [P.reqs EXCEPT ![q.prev].next = q.next] ELSE P.reqs
        h1 == IF q.prev # NULL THEN P.head ELSE q.next
        r2 == IF q.next # NULL /\ q.next \in DOMAIN r1
                THEN [r1 EXCEPT ![q.next].prev = q.prev] ELSE r1
    IN  [P EXCEPT !.head = h1, !.reqs = r2]

\* The timer left running: neither stopped nor closed.
uv_timer_left_running(P, r) == P

\* uv_timer_stop then uv_close(timer, on_timer_close)
uv_timer_stop_close(P, r) == [P EXCEPT !.timers[r] = "closing"]

\* History: request r left the list by how ("response", "purge" or
\* "timeout").  Two entries are kept at most.
Resolve(P, r, how) ==
    [P EXCEPT !.resolved[r] = IF Len(@) < 2 THEN Append(@, how) ELSE @]

RECURSIVE CompleteFrom(_, _, _, _)
CompleteFrom(P, iter, request_id, fuel) ==
    IF iter = NULL \/ iter \notin DOMAIN P.reqs \/ fuel = 0 THEN P
    ELSE IF P.reqs[iter].request_id = request_id
        THEN uv_timer_stop_close(
                 unlink_pending_request(Resolve(P, iter, "response"), iter),
                 iter)
    ELSE CompleteFrom(P, P.reqs[iter].next, request_id, fuel - 1)

\* complete_request comparing iter->client_id with the request id.
RECURSIVE CompleteByClientFrom(_, _, _, _)
CompleteByClientFrom(P, iter, request_id, fuel) ==
    IF iter = NULL \/ iter \notin DOMAIN P.reqs \/ fuel = 0 THEN P
    ELSE IF P.reqs[iter].client_id = request_id
        THEN uv_timer_stop_close(
                 unlink_pending_request(Resolve(P, iter, "response"), iter),
                 iter)
    ELSE CompleteByClientFrom(P, P.reqs[iter].next, request_id, fuel - 1)

complete_request_by_client(P, request_id) ==
    CompleteByClientFrom(P, P.head, request_id, MaxRequests + 1)

complete_request(P, request_id) ==
    CompleteFrom(P, P.head, request_id, MaxRequests + 1)

\* The loop of remove_client over the pending list
RECURSIVE PurgeFrom(_, _, _, _)
PurgeFrom(P, iter, client_id, fuel) ==
    IF iter = NULL \/ iter \notin DOMAIN P.reqs \/ fuel = 0 THEN P
    ELSE LET next == P.reqs[iter].next
         IN  PurgeFrom(IF P.reqs[iter].client_id = client_id
                         THEN uv_timer_stop_close(
                                  unlink_pending_request(
                                      Resolve(P, iter, "purge"), iter), iter)
                         ELSE P,
                       next, client_id, fuel - 1)

\* The purge loop leaving after its first match.
RECURSIVE PurgeFirstFrom(_, _, _, _)
PurgeFirstFrom(P, iter, client_id, fuel) ==
    IF iter = NULL \/ iter \notin DOMAIN P.reqs \/ fuel = 0 THEN P
    ELSE IF P.reqs[iter].client_id = client_id
        THEN uv_timer_stop_close(
                 unlink_pending_request(Resolve(P, iter, "purge"), iter), iter)
    ELSE PurgeFirstFrom(P, P.reqs[iter].next, client_id, fuel - 1)

purge_requests_first(P, client_id) ==
    PurgeFirstFrom(P, P.head, client_id, MaxRequests + 1)

\* The purge loop without the comparison of client_id: every entry goes.
RECURSIVE PurgeAllFrom(_, _, _)
PurgeAllFrom(P, iter, fuel) ==
    IF iter = NULL \/ iter \notin DOMAIN P.reqs \/ fuel = 0 THEN P
    ELSE LET next == P.reqs[iter].next
         IN  PurgeAllFrom(uv_timer_stop_close(
                              unlink_pending_request(
                                  Resolve(P, iter, "purge"), iter), iter),
                          next, fuel - 1)

purge_requests_all(P, client_id) == PurgeAllFrom(P, P.head, MaxRequests + 1)

\* remove_client without its purge loop.
purge_requests_none(P, client_id) == P

purge_requests(P, client_id) ==
    PurgeFrom(P, P.head, client_id, MaxRequests + 1)

\* ------------------------------------------------------- remove_client
UserLeft(node, ns) ==
    stringify_json(<<JStr("event", "user_left"), JNum("id", ns[node].id),
                     JStr("name", ns[node].name)>>)

\* elect_new_host without its else-branch: only node->next is tried.
elect_new_host_next_only(ns, node) ==
    IF ns[node].is_host = 1 THEN ns[node].next ELSE NULL

\* elect_new_host appointing the newest remaining client, not a neighbour.
elect_new_host_newest(ns, node) ==
    LET others == DOMAIN ns \ {node}
    IN  IF ns[node].is_host = 1 /\ others # {}
          THEN CHOOSE n \in others : \A m \in others : ns[m].id <= ns[n].id
          ELSE NULL

\* The new host remove_client appoints when node leaves (NULL: none).
elect_new_host(ns, node) ==
    IF ns[node].is_host = 1
      THEN IF ns[node].next # NULL THEN ns[node].next
           ELSE IF ns[node].prev # NULL THEN ns[node].prev
           ELSE NULL
      ELSE NULL

\* The list with node taken out of the chain (node itself is kept).
unlink_client(head, ns, node) ==
    LET n == ns[node]
        n1 == IF n.prev # NULL THEN [ns EXCEPT ![n.prev].next = n.next]
              ELSE ns
        h1 == IF n.prev # NULL THEN head ELSE n.next
        n2 == IF n.next # NULL THEN [n1 EXCEPT ![n.next].prev = n.prev]
              ELSE n1
    IN  [head |-> h1, ns |-> n2]

NewHostMsg(name) == RawMsg(snprintf(MsgBufSize, NewHostText(name)))

\* The new_host broadcast of remove_client, after the unlinking
announce_new_host(head, ns, cl, node, new_host) ==
    IF ns[node].is_host = 1 /\ new_host # NULL
      THEN broadcast_message(head, ns, cl, NULL, NewHostMsg(ns[new_host].name))
      ELSE <<>>

\* on_close of a client stream: remove_client, then the handle is freed
OnClose(c) ==
    /\ last' = Called("on_close", c, NULL, NoFrame)
    /\ c \in closing
    /\ LET left == broadcast_message(clients_head, nodes, closing, c,
                                     UserLeft(c, nodes))
           P == purge_requests(PendingState, nodes[c].id)
           new_host == elect_new_host(nodes, c)
           ns1 == IF new_host # NULL
                    THEN [nodes EXCEPT ![new_host].is_host = 1] ELSE nodes
           u == unlink_client(clients_head, ns1, c)
       IN  /\ sent' = left \o announce_new_host(u.head, u.ns, closing,
                                                c, new_host)
           /\ requests_head' = P.head
           /\ reqs' = P.reqs
           /\ timers' = P.timers
           /\ resolved' = P.resolved
           /\ clients_head' = u.head
           /\ nodes' = [n \in DOMAIN u.ns \ {c} |-> u.ns[n]]
    /\ closing' = closing \ {c}
    /\ UNCHANGED <<next_client_id, next_request_id, forwarded>>
    /\ UNCHANGED ring

\* ------------------------------------------------------------- timers
TimeoutError ==
    stringify_json(<<JStr("event", "error"), JStr("data.type", "timeout"),
                     JStr("data.message",
                          "Timeout! Host is too incompetent to handle this request on time")>>)

\* on_request_timeout that reports the timeout and leaves the entry in the
\* list with its timer running.
OnRequestTimeoutKeepsEntry(r) ==
    /\ last' = Called("on_request_timeout", NULL, r, NoFrame)
    /\ r \in DOMAIN timers
    /\ timers[r] = "active"
    /\ LET client == find_client_stream_by_id(clients_head, nodes,
                                              reqs[r].client_id)
       IN  sent' = IF client # NULL
                     THEN send_message(closing, client, TimeoutError)
                     ELSE <<>>
    /\ UNCHANGED <<next_client_id, clients_head, nodes, closing,
                   next_request_id, requests_head, reqs, timers, resolved,
                   forwarded>>
    /\ UNCHANGED ring

\* on_request_timeout: libuv calls it for an active timer only
OnRequestTimeout(r) ==
    /\ last' = Called("on_request_timeout", NULL, r, NoFrame)
    /\ r \in DOMAIN timers
    /\ timers[r] = "active"
    /\ LET client == find_client_stream_by_id(clients_head, nodes,
                                              reqs[r].client_id)
           P == unlink_pending_request(Resolve(PendingState, r, "timeout"), r)
       IN  /\ sent' = IF client # NULL
                        THEN send_message(closing, client, TimeoutError)
                        ELSE <<>>
           /\ requests_head' = P.head
           /\ reqs' = P.reqs
           /\ resolved' = P.resolved
    /\ timers' = [timers EXCEPT ![r] = "closing"]
    /\ UNCHANGED <<next_client_id, clients_head, nodes, closing,
                   next_request_id, forwarded>>
    /\ UNCHANGED ring

\* on_timer_close: frees the request and its timer
OnTimerClose(r) ==
    /\ last' = Called("on_timer_close", NULL, r, NoFrame)
    /\ r \in DOMAIN timers
    /\ timers[r] = "closing"
    /\ timers' = [q \in DOMAIN timers \ {r} |-> timers[q]]
    /\ reqs' = [q \in DOMAIN reqs \ {r} |-> reqs[q]]
    /\ sent' = <<>>
    /\ UNCHANGED <<next_client_id, clients_head, nodes, closing,
                   next_request_id, requests_head, resolved, forwarded>>
    /\ UNCHANGED ring

\* ---------------------------------------------------- process_message
\* A frame handed to process_message: ok says whether cJSON_Parse accepts
\* its text, doc is the object it parses to.
Malformed == [ok |-> FALSE, doc |-> <<>>]
Frame(doc) == [ok |-> TRUE, doc |-> doc]
Payload == JStr("event", "cursor_move")

ResponseFrames ==
    {Frame(<<Payload, JNum("to_client", c)>>) : c \in 0..(MaxClients - 1)}
    \cup {Frame(<<Payload, JNum("to_client", c), JNum("request_id", r)>>) :
            c \in 0..(MaxClients - 1), r \in 0..(MaxRequests - 1)}

NameFrames == {Frame(<<JStr("set_name", n)>>) : n \in InNames}

Frames ==
    {Malformed, Frame(<<Payload>>),
     Frame(<<Payload, JBool("to_host", TRUE)>>),
     Frame(<<JStr("event", "content_update"), JNum("request_id", 0)>>)}
    \cup ResponseFrames

\* Which branch of process_message a parsed document takes.
classify(doc) ==
    IF cJSON_IsString(cJSON_GetObjectItemCaseSensitive(doc, "set_name"))
      THEN "set_name"
    ELSE IF cJSON_IsBool(cJSON_GetObjectItemCaseSensitive(doc, "to_host"))
            /\ cJSON_IsTrue(cJSON_GetObjectItemCaseSensitive(doc, "to_host"))
      THEN "to_host"
    ELSE IF cJSON_IsNumber(cJSON_GetObjectItemCaseSensitive(doc, "to_client"))
      THEN "to_client"
    ELSE "broadcast"

NameChanged(id, name) ==
    stringify_json(<<JStr("event", "name_changed"), JNum("id", id),
                     JStr("new_name", name)>>)

\* The request as forwarded: request_id and from_id added, to_host removed.
stamp_request(doc, req_id, from_id) ==
    cJSON_DeleteItemFromObjectCaseSensitive(
        cJSON_AddItem(cJSON_AddItem(doc, JNum("request_id", req_id)),
                      JNum("from_id", from_id)),
        "to_host")

\* The loop of process_message that looks for the host and writes to it
RECURSIVE SendToHostFrom(_, _, _, _, _)
SendToHostFrom(ns, cl, iter, msg, fuel) ==
    IF iter = NULL \/ iter \notin DOMAIN ns \/ fuel = 0 THEN <<>>
    ELSE IF ns[iter].is_host = 1 THEN send_message(cl, iter, msg)
    ELSE SendToHostFrom(ns, cl, ns[iter].next, msg, fuel - 1)

\* send_to_host without the is_host test: the head of the list gets it.
send_to_host_first(head, ns, cl, msg) ==
    IF head = NULL THEN <<>> ELSE send_message(cl, head, msg)

send_to_host(head, ns, cl, msg) ==
    SendToHostFrom(ns, cl, head, msg, MaxClients + 1)

\* The pending list after the to_client branch has looked at request_id
complete_response(P, doc) ==
    LET req_id_item == cJSON_GetObjectItemCaseSensitive(doc, "request_id")
    IN  IF cJSON_IsNumber(req_id_item)
          THEN complete_request(P, req_id_item.n) ELSE P

\* response_dest looking the client up by request_id instead of to_client.
response_dest_by_request_id(head, ns, doc) ==
    find_client_stream_by_id(head, ns,
        cJSON_GetObjectItemCaseSensitive(doc, "request_id").n)

\* Where the to_client branch sends the response (NULL: nowhere)
response_dest(head, ns, doc) ==
    find_client_stream_by_id(head, ns,
        cJSON_GetObjectItemCaseSensitive(doc, "to_client").n)

\* SetName announcing user_joined when the sender still has the name
\* add_client gave it, name_changed afterwards.
SetNameAnnouncesJoin(c, doc) ==
    LET name == cJSON_GetObjectItemCaseSensitive(doc, "set_name").s
        ns == [nodes EXCEPT ![c].name = name]
    IN  /\ nodes' = ns
        /\ sent' = broadcast_message(clients_head, ns, closing, c,
                        IF nodes[c].name = DefaultName THEN UserJoined(c, ns)
                        ELSE NameChanged(ns[c].id, ns[c].name))
        /\ UNCHANGED <<next_client_id, clients_head, closing,
                       next_request_id, requests_head, reqs, timers,
                       resolved, forwarded>>

SetName(c, doc) ==
    LET name == cJSON_GetObjectItemCaseSensitive(doc, "set_name").s
        ns == [nodes EXCEPT ![c].name = name]
    IN  /\ nodes' = ns
        /\ sent' = broadcast_message(clients_head, ns, closing, c,
                                     NameChanged(ns[c].id, ns[c].name))
        /\ UNCHANGED <<next_client_id, clients_head, closing,
                       next_request_id, requests_head, reqs, timers,
                       resolved, forwarded>>

ToHost(c, doc) ==
    /\ LET req_id == next_request_id
           req_context == [request_id |-> req_id, client_id |-> nodes[c].id,
                           next |-> NULL, prev |-> NULL]
           P == add_pending_request(PendingState, req_context)
       IN  /\ next_request_id' = next_request_id + 1
           /\ requests_head' = P.head
           /\ reqs' = P.reqs
           /\ timers' = [q \in DOMAIN timers \cup {req_id} |->
                           IF q = req_id THEN "active" ELSE timers[q]]
           /\ sent' = send_to_host(clients_head, nodes, closing,
                          stringify_json(stamp_request(doc, req_id,
                                                       nodes[c].id)))
           /\ forwarded' = [r \in DOMAIN forwarded |->
                               IF r # req_id THEN forwarded[r]
                               ELSE IF sent' = <<>> THEN NULL
                               ELSE sent'[1].dest]
    /\ UNCHANGED <<next_client_id, clients_head, nodes, closing, resolved>>

ToClient(c, doc) ==
    LET P == complete_response(PendingState, doc)
        dest == response_dest(clients_head, nodes, doc)
        response == stringify_json(
                        cJSON_DeleteItemFromObjectCaseSensitive(doc, "to_client"))
    IN  /\ requests_head' = P.head
        /\ reqs' = P.reqs
        /\ timers' = P.timers
        /\ resolved' = P.resolved
        /\ sent' = IF dest # NULL THEN send_message(closing, dest, response)
                   ELSE <<>>
        /\ UNCHANGED <<next_client_id, clients_head, nodes, closing,
                       next_request_id, forwarded>>

\* The last branch of process_message writing to the host alone.
BroadcastToHostOnly(c, doc) ==
    /\ sent' = send_to_host(clients_head, nodes, closing, stringify_json(doc))
    /\ UNCHANGED <<next_client_id, clients_head, nodes, closing,
                   next_request_id, requests_head, reqs, timers, resolved,
                   forwarded>>

Broadcast(c, doc) ==
    /\ sent' = broadcast_message(clients_head, nodes, closing, c,
                                 stringify_json(doc))
    /\ UNCHANGED <<next_client_id, clients_head, nodes, closing,
                   next_request_id, requests_head, reqs, timers, resolved,
                   forwarded>>

\* process_message without the test of cJSON_Parse's result: the frame
\* that failed to decode is routed as an empty document.
process_message_unparsed(c, frame) ==
    IF classify(frame.doc) = "set_name" THEN SetName(c, frame.doc)
    ELSE IF classify(frame.doc) = "to_host" THEN ToHost(c, frame.doc)
    ELSE IF classify(frame.doc) = "to_client" THEN ToClient(c, frame.doc)
    ELSE Broadcast(c, frame.doc)

process_message(c, frame) ==
    IF ~frame.ok
      THEN sent' = <<>> /\ UNCHANGED <<next_client_id, clients_head, nodes,
               closing, next_request_id, requests_head, reqs, timers, resolved,
               forwarded>>
    ELSE IF classify(frame.doc) = "set_name" THEN SetName(c, frame.doc)
    ELSE IF classify(frame.doc) = "to_host" THEN ToHost(c, frame.doc)
    ELSE IF classify(frame.doc) = "to_client" THEN ToClient(c, frame.doc)
    ELSE Broadcast(c, frame.doc)

\* ------------------------------------------------------------- on_read
\* libuv reads only from a stream that is open and not closing.
Readable(c) == c \in DOMAIN nodes /\ c \notin closing

\* on_read with nread < 0, with nread > MAX_BUFFER_SIZE, or with the
\* buffer's growth failing: uv_close(client, on_close)
OnReadClose(c) ==
    /\ last' = Called("on_read_close", c, NULL, NoFrame)
    /\ Readable(c)
    /\ closing' = closing \cup {c}
    /\ sent' = <<>>
    /\ UNCHANGED <<next_client_id, clients_head, nodes, next_request_id,
                   requests_head, reqs, timers, resolved, forwarded>>
    /\ UNCHANGED ring

\* on_read with data in which cb_get_string finds no frame
OnReadPartial(c) ==
    /\ last' = Called("on_read_partial", c, NULL, NoFrame)
    /\ Readable(c)
    /\ sent' = <<>>
    /\ UNCHANGED <<next_client_id, clients_head, nodes, closing,
                   next_request_id, requests_head, reqs, timers, resolved,
                   forwarded>>
    /\ UNCHANGED ring

\* on_read with data from which cb_get_string returns a frame; cap bounds
\* the requests the model follows
OnReadFrame(c, frame, cap) ==
    /\ last' = Called("on_read_frame", c, NULL, frame)
    /\ Readable(c)
    /\ (frame.ok /\ classify(frame.doc) = "to_host") => next_request_id < cap
    /\ process_message(c, frame)
    /\ UNCHANGED ring

Clients == 0..(MaxClients - 1)
Requests == 0..(MaxRequests - 1)

Next ==
    \/ OnNewConnection
    \/ \E c \in Clients : OnReadClose(c)
    \/ \E c \in Clients : OnReadPartial(c)
    \/ \E c \in Clients, frame \in Frames : OnReadFrame(c, frame, MaxRequests)
    \/ \E c \in Clients : OnClose(c)
    \/ \E r \in Requests : OnRequestTimeout(r)
    \/ \E r \in Requests : OnTimerClose(r)

Spec == Init /\ [][Next]_vars

\* The same server with clients that also send set_name
NextNames ==
    \/ OnNewConnection
    \/ \E c \in Clients : OnReadClose(c)
    \/ \E c \in Clients : OnReadPartial(c)
    \/ \E c \in Clients, frame \in Frames \cup NameFrames :
          OnReadFrame(c, frame, MaxNamedRequests)
    \/ \E c \in Clients : OnClose(c)
    \/ \E r \in Requests : OnRequestTimeout(r)
    \/ \E r \in Requests : OnTimerClose(r)

SpecNames == Init /\ [][NextNames]_vars

\* The same server with clients that also send an event of their own
\* making, with none of set_name, to_host, to_client and request_id
ImplicitFrames == {Frame(<<JStr("event", "get_files")>>)}

NextImplicit ==
    \/ OnNewConnection
    \/ \E c \in Clients : OnReadClose(c)
    \/ \E c \in Clients : OnReadPartial(c)
    \/ \E c \in Clients, frame \in Frames \cup ImplicitFrames :
          OnReadFrame(c, frame, MaxImplicitRequests)
    \/ \E c \in Clients : OnClose(c)
    \/ \E r \in Requests : OnRequestTimeout(r)
    \/ \E r \in Requests : OnTimerClose(r)

SpecImplicit == Init /\ [][NextImplicit]_vars

\* The same server, the forwarding of its first requests being recorded
InitOrphans ==
    /\ InitRegistry
    /\ forwarded = [r \in 0..(MaxRequests - 1) |-> NULL]
    /\ InitBuffer("utils.c")

NextOrphans ==
    \/ OnNewConnection
    \/ \E c \in Clients : OnReadClose(c)
    \/ \E c \in Clients : OnReadPartial(c)
    \/ \E c \in Clients, frame \in Frames :
          OnReadFrame(c, frame, MaxTrackedRequests)
    \/ \E c \in Clients : OnClose(c)
    \/ \E r \in Requests : OnRequestTimeout(r)
    \/ \E r \in Requests : OnTimerClose(r)

SpecOrphans == InitOrphans /\ [][NextOrphans]_vars

\* The server with the loop running on: a timer that stays armed fires
\* (uv_timer_start with DEFAULT_TIMEOUT, no repeat).
SpecLive ==
    Init /\ [][Next]_vars /\ \A r \in Requests : WF_vars(OnRequestTimeout(r))

\* ------------------------------------------------ on_read and its buffer
\* One connection's reads in full: the chunk libuv hands to on_read is
\* pushed to the node's buffer and cb_get_string is called once.
Chunks == UNION {[1..n -> Byte] : n \in 1..MaxChunk}

push_data(build, c, data) ==
    IF build = "main.c" THEN main_cb_push_data(c, data)
    ELSE cb_push_data(c, data)

get_string_scan(build, c) ==
    IF build = "main.c" THEN main_cb_get_string_scan(c)
    ELSE cb_get_string_scan(c)

get_string(build, c, pos) ==
    IF build = "main.c" THEN main_cb_get_string(c, pos)
    ELSE cb_get_string(c, pos)

\* on_read with 0 < nread <= MAX_BUFFER_SIZE and every realloc succeeding
OnReadData(chunk) ==
    /\ ~kicked
    /\ Len(chunk) <= MAX_BUFFER_SIZE
    /\ Len(stream) + Len(chunk) <= MaxStream
    /\ LET pushed == push_data(cb_build, grow_buffer(cb, Len(chunk)), chunk)
       IN  \E pos \in get_string_scan(cb_build, pushed) :
              LET buf_string == get_string(cb_build, pushed, pos)
              IN  /\ cb' = buf_string.cb
                  /\ delivered' = IF buf_string.found
                                    THEN Append(delivered, buf_string.str)
                                    ELSE delivered
    /\ stream' = stream \o chunk
    /\ UNCHANGED <<cb_build, kicked>>
    /\ UNCHANGED server

\* on_read with nread > MAX_BUFFER_SIZE: uv_close, nothing is copied
OnReadTooMuch(nread) ==
    /\ ~kicked
    /\ nread > MAX_BUFFER_SIZE
    /\ kicked' = TRUE
    /\ UNCHANGED <<cb_build, cb, stream, delivered>>
    /\ UNCHANGED server

\* on_read with realloc returning NULL in the growth loop: uv_close
OnReadNoMemory(nread) ==
    /\ ~kicked
    /\ nread <= MAX_BUFFER_SIZE
    /\ nread > cb.size
    /\ kicked' = TRUE
    /\ UNCHANGED <<cb_build, cb, stream, delivered>>
    /\ UNCHANGED server

\* main.c's cb_get_string with tail at buffer_end: tmp holds
\* second_portion bytes and the terminator is written one byte past it.
\* Besides going unnoticed (OnReadData), the overflow may end the process.
OnReadHeapOverflow(chunk) ==
    /\ ~kicked
    /\ cb_build = "main.c"
    /\ Len(chunk) <= MAX_BUFFER_SIZE
    /\ Len(stream) + Len(chunk) <= MaxStream
    /\ LET pushed == push_data(cb_build, grow_buffer(cb, Len(chunk)), chunk)
       IN  /\ pushed.tail > pushed.head
           /\ pushed.tail = pushed.size
           /\ get_string_scan(cb_build, pushed) # {NULL}
           /\ cb' = pushed
    /\ stream' = stream \o chunk
    /\ kicked' = TRUE
    /\ UNCHANGED <<cb_build, delivered>>
    /\ UNCHANGED server

\* The reads of one connection, on_read calling the functions of utils.c
InitRing == InitServer /\ InitBuffer("utils.c")

NextRing ==
    \/ \E chunk \in Chunks : OnReadData(chunk)
    \/ OnReadTooMuch(MAX_BUFFER_SIZE + 1)
    \/ \E nread \in 1..MaxChunk : OnReadNoMemory(nread)

SpecRing == InitRing /\ [][NextRing]_vars

\* The same reads, on_read calling the copies of the functions in main.c
InitRingMain == InitServer /\ InitBuffer("main.c")

NextRingMain ==
    \/ \E chunk \in Chunks : OnReadData(chunk)
    \/ OnReadTooMuch(MAX_BUFFER_SIZE + 1)
    \/ \E nread \in 1..MaxChunk : OnReadNoMemory(nread)
    \/ \E chunk \in Chunks : OnReadHeapOverflow(chunk)

SpecRingMain == InitRingMain /\ [][NextRingMain]_vars

\* ================================================================ claims
Hosts == {n \in Registry : nodes[n].is_host = 1}
PendingList == RequestList(requests_head, reqs)
IsNewHost(d) == d.msg.raw # ""
HasMember(doc, item) == \E i \in DOMAIN doc : doc[i] = item
Without(list, x) == SelectSeq(list, LAMBDA y : y # x)
WithoutKey(doc, k) == SelectSeq(doc, LAMBDA m : m.k # k)
Connected(c) == c \in Registry /\ c \notin closing

\* The step is a call of process_message with a frame of the given branch
Processes(branch) ==
    /\ last'.op = "on_read_frame"
    /\ last'.frame.ok
    /\ classify(last'.frame.doc) = branch

\* C1 (host uniqueness): in every state the registry holds at most one
\* node with is_host set, and exactly one whenever it is not empty.
HostUniqueness ==
    /\ Cardinality(Hosts) <= 1
    /\ Registry # {} => Cardinality(Hosts) = 1

\* C1 witness: the first host has been removed and two clients remain.
HostUniquenessWitness ==
    /\ 0 \notin DOMAIN nodes
    /\ Cardinality(Registry) = 2
    /\ Cardinality(Hosts) = 1

\* The neighbour in the insertion chain a departing host hands over to:
\* the next-older registered client, else the next-newer, else NULL.
Successor(c) ==
    LET older == {n \in Registry : nodes[n].id < nodes[c].id}
        newer == {n \in Registry : nodes[n].id > nodes[c].id}
    IN  IF older # {}
          THEN CHOOSE n \in older : \A m \in older : nodes[m].id <= nodes[n].id
        ELSE IF newer # {}
          THEN CHOOSE n \in newer : \A m \in newer : nodes[m].id >= nodes[n].id
        ELSE NULL

\* C2 (host succession): a step that removes the host from the registry
\* leaves its next-older neighbour as host, else its next-newer one, else
\* no host and an empty registry; a step that removes a non-host leaves
\* the host as it was.
HostSuccession ==
    [][(nodes' # nodes \/ clients_head' # clients_head) =>
       \A c \in Clients :
          (c \in Registry /\ c \notin Registry') =>
             IF nodes[c].is_host = 1
               THEN /\ Hosts' = IF Successor(c) = NULL THEN {}
                                ELSE {Successor(c)}
                    /\ Successor(c) = NULL => Registry' = {}
               ELSE Hosts' = Hosts]_vars

\* C2 witness: host 0 has just left clients 1 and 2 behind; its neighbour
\* 1 is host and the new_host announcement is in the outbox.
HostSuccessionWitness ==
    /\ last.op = "on_close"
    /\ last.c = 0
    /\ Registry = {1, 2}
    /\ Hosts = {1}
    /\ sent # <<>>
    /\ IsNewHost(sent[Len(sent)])

Distinct(ids) == \A i, j \in DOMAIN ids : i # j => ids[i] # ids[j]

\* C3 (id monotonicity): an accept gives the new node the old value of
\* next_client_id, which is above every id held and is raised by the step;
\* a request does the same with next_request_id; the counters never go
\* down, and a step that changes the registry or the pending list changes
\* no id and leaves the ids pairwise distinct and below the counters.
IdStep ==
    /\ next_client_id' >= next_client_id
    /\ next_request_id' >= next_request_id
    /\ last'.op = "on_new_connection" =>
          /\ nodes'[clients_head'].id = next_client_id
          /\ next_client_id' > next_client_id
          /\ \A n \in DOMAIN nodes : nodes[n].id < nodes'[clients_head'].id
    /\ Processes("to_host") =>
          /\ reqs'[requests_head'].request_id = next_request_id
          /\ next_request_id' > next_request_id
          /\ \A r \in DOMAIN reqs :
                reqs[r].request_id < reqs'[requests_head'].request_id
    /\ (nodes' # nodes \/ clients_head' # clients_head) =>
          /\ \A n \in DOMAIN nodes' : nodes'[n].id < next_client_id'
          /\ \A n \in DOMAIN nodes \cap DOMAIN nodes' :
                nodes'[n].id = nodes[n].id
          /\ LET cl == ClientList(clients_head', nodes')
             IN  Distinct([i \in DOMAIN cl |-> nodes'[cl[i]].id])
    /\ (reqs' # reqs \/ requests_head' # requests_head) =>
          /\ \A r \in DOMAIN reqs' : reqs'[r].request_id < next_request_id'
          /\ \A r \in DOMAIN reqs \cap DOMAIN reqs' :
                reqs'[r].request_id = reqs[r].request_id
          /\ LET rl == RequestList(requests_head', reqs')
             IN  Distinct([i \in DOMAIN rl |-> reqs'[rl[i]].request_id])

IdMonotonicity == [][IdStep]_vars

\* C3 witness: every id the bounds allow has been handed out, a client
\* has left, and two requests are pending.
IdMonotonicityWitness ==
    /\ next_client_id = MaxClients
    /\ next_request_id >= 2
    /\ Cardinality(DOMAIN nodes) < next_client_id
    /\ Cardinality(Pending) >= 2

\* ------------------------------------------------- requests and responses
RequestIdOf(frame) == cJSON_GetObjectItemCaseSensitive(frame.doc, "request_id")
ToClientOf(frame) == cJSON_GetObjectItemCaseSensitive(frame.doc, "to_client").n
UsedRequestIds ==
    {r \in Requests : resolved[r] # <<>>}
    \cup {reqs[q].request_id : q \in DOMAIN reqs}

\* The step has put exactly one new entry, with the fresh id r and the
\* originator c, in front of the pending list and armed its timer.
RequestCreated(c, r) ==
    /\ r \notin UsedRequestIds
    /\ PendingList' = <<r>> \o PendingList
    /\ reqs'[r].request_id = r
    /\ reqs'[r].client_id = nodes[c].id
    /\ timers'[r] = "active"

\* msg is the request doc without to_host, stamped with r and from_id
IsStamped(msg, doc, r, from_id) ==
    /\ msg.raw = ""
    /\ Range(msg.doc) = Range(WithoutKey(doc, "to_host"))
                          \cup {JNum("request_id", r), JNum("from_id", from_id)}
    /\ Len(msg.doc) = Len(WithoutKey(doc, "to_host")) + 2

DeliveredToHost(frame, c, r) ==
    /\ Len(sent') = 1
    /\ sent'[1].dest \in Hosts
    /\ IsStamped(sent'[1].msg, frame.doc, r, nodes[c].id)

AnswersPending(frame) ==
    /\ cJSON_IsNumber(RequestIdOf(frame))
    /\ \E r \in Pending : reqs[r].request_id = RequestIdOf(frame).n

ResponseTo(frame) ==
    [dest |-> ToClientOf(frame),
     msg |-> stringify_json(WithoutKey(frame.doc, "to_client"))]

\* The pending entry r is gone, the others stay, r's timer is cancelled
EntryCompleted(r) ==
    /\ PendingList' = Without(PendingList, r)
    /\ timers'[r] = "closing"

\* C5 as stated (correlation): a response that carries the request id r
\* of a pending entry of client A is delivered to A only, exactly once,
\* and the entry is removed and its timer cancelled.
ResponseOnlyToRequester ==
    [][(Processes("to_client") /\ AnswersPending(last'.frame)) =>
         LET r == RequestIdOf(last'.frame).n
         IN  /\ Len(sent') = 1
             /\ sent'[1].dest = reqs[r].client_id
             /\ EntryCompleted(r)]_vars

\* C5 amended: a response that carries the request id r of a pending
\* entry is delivered only to the connection its to_client field names,
\* exactly once, or not at all when that connection is not registered or
\* is mid-close; when to_client names A, only A gets it.  The entry for r
\* is removed and its timer cancelled in every case.
ResponseToNamedClient ==
    [][(Processes("to_client") /\ AnswersPending(last'.frame)) =>
         LET r == RequestIdOf(last'.frame).n
         IN  /\ sent' = IF Connected(ToClientOf(last'.frame))
                          THEN <<ResponseTo(last'.frame)>> ELSE <<>>
             /\ EntryCompleted(r)]_vars

\* C5 witness: the last handler processed the response to request r of
\* client A with to_client = A: r is completed, its timer is closing, and
\* A alone was sent the response.
ResponseWitness ==
    /\ last.op = "on_read_frame"
    /\ \E r \in DOMAIN reqs :
          /\ last.frame.doc = <<Payload, JNum("to_client", reqs[r].client_id),
                                JNum("request_id", r)>>
          /\ resolved[r] = <<"response">>
          /\ timers[r] = "closing"
          /\ sent = <<[dest |-> reqs[r].client_id,
                       msg |-> stringify_json(<<Payload,
                                                JNum("request_id", r)>>)]>>

UnknownId(frame) ==
    /\ cJSON_IsNumber(RequestIdOf(frame))
    /\ ~ \E r \in Pending : reqs[r].request_id = RequestIdOf(frame).n

StateUnchanged ==
    UNCHANGED <<next_client_id, clients_head, nodes, closing,
                next_request_id, requests_head, reqs, timers, resolved>>

\* C6 as stated (unknown correlation id): a response whose request_id
\* matches no pending entry is dropped: nothing is delivered and the
\* registry and the pending list do not change.
UnknownResponseDropped ==
    [][(Processes("to_client") /\ UnknownId(last'.frame)) =>
         sent' = <<>> /\ StateUnchanged]_vars

\* C6 amended: a response whose request_id matches no pending entry
\* changes neither the registry nor the pending list; it is not dropped
\* but forwarded to the connection its to_client field names, if that one
\* is registered and not mid-close, and to no other.
UnknownResponseForwarded ==
    [][(Processes("to_client") /\ UnknownId(last'.frame)) =>
         /\ sent' = IF Connected(ToClientOf(last'.frame))
                      THEN <<ResponseTo(last'.frame)>> ELSE <<>>
         /\ StateUnchanged]_vars

\* C6 witness: the last handler processed a response with a request id
\* that was never issued, while another request is pending, and forwarded
\* it.
UnknownResponseWitness ==
    /\ last.op = "on_read_frame"
    /\ last.frame.ok
    /\ classify(last.frame.doc) = "to_client"
    /\ cJSON_IsNumber(RequestIdOf(last.frame))
    /\ RequestIdOf(last.frame).n >= next_request_id
    /\ Pending # {}
    /\ sent = <<ResponseTo(last.frame)>>

\* ------------------------------------------------------------ timeouts
\* The step is on_request_timeout for request r: its originator, if
\* connected, is sent the one timeout error, and r leaves the list.
TimeoutNotifies(r) ==
    /\ r \in Pending
    /\ sent' = IF Connected(reqs[r].client_id)
                 THEN <<[dest |-> reqs[r].client_id, msg |-> TimeoutError]>>
                 ELSE <<>>
    /\ PendingList' = Without(PendingList, r)

\* A response that carries the id of a request whose timer has fired
LateResponse(frame) ==
    /\ cJSON_IsNumber(RequestIdOf(frame))
    /\ RequestIdOf(frame).n \in Requests
    /\ resolved[RequestIdOf(frame).n] = <<"timeout">>

\* C7 as stated (timeout delivery): when the timer of r fires, the
\* requester, if still connected, is sent exactly one timeout error and
\* the entry is removed; a response for r that arrives after the firing
\* sends nothing more to the requester.
TimeoutThenSilence ==
    [][/\ last'.op = "on_request_timeout" => TimeoutNotifies(last'.r)
       /\ (Processes("to_client") /\ LateResponse(last'.frame)
             /\ RequestIdOf(last'.frame).n \in DOMAIN reqs) =>
             \A i \in DOMAIN sent' :
                sent'[i].dest # reqs[RequestIdOf(last'.frame).n].client_id]_vars

\* C7 amended: when the timer of r fires, the requester, if still
\* connected (registered and not mid-close), is sent exactly one timeout
\* error and the entry is removed; a response for r that arrives after the
\* firing sends no second timeout error and changes no pending entry, but
\* is still forwarded to the connection its to_client field names.
TimeoutThenForward ==
    [][/\ last'.op = "on_request_timeout" => TimeoutNotifies(last'.r)
       /\ (Processes("to_client") /\ LateResponse(last'.frame)) =>
             /\ sent' = IF Connected(ToClientOf(last'.frame))
                          THEN <<ResponseTo(last'.frame)>> ELSE <<>>
             /\ UNCHANGED <<requests_head, reqs, timers, resolved>>]_vars

\* C7 witness: the timer of request r fired and its requester was sent
\* the timeout error; the last handler then processed a late response for
\* r and forwarded it to the requester.
TimeoutWitness ==
    /\ last.op = "on_read_frame"
    /\ \E r \in DOMAIN reqs :
          /\ resolved[r] = <<"timeout">>
          /\ last.frame.doc = <<Payload, JNum("to_client", reqs[r].client_id),
                                JNum("request_id", r)>>
          /\ sent = <<ResponseTo(last.frame)>>

\* C8 (exactly-once resolution): no request has left the pending list
\* more than once; a request is in the list exactly while it has been
\* issued and not resolved; and a timer is active, hence able to fire,
\* exactly while its request is in the list.
ExactlyOnceResolution ==
    \A r \in Requests :
       /\ Len(resolved[r]) <= 1
       /\ r \in Pending <=> (r < next_request_id /\ resolved[r] = <<>>)
       /\ r \in Pending <=> (r \in DOMAIN timers /\ timers[r] = "active")

\* C8 witness: one request was resolved by its timeout, another by a
\* response.
ExactlyOnceWitness ==
    \E r, q \in Requests :
       resolved[r] = <<"timeout">> /\ resolved[q] = <<"response">>

\* ---------------------------------------------------------- disconnect
\* C9 (disconnect purge): on_close of client A takes out of the pending
\* list exactly the entries A originated and cancels their timers; the
\* other entries keep their place, their fields and their active timer.
DisconnectPurge ==
    [][last'.op = "on_close" =>
         LET id == nodes[last'.c].id
         IN  /\ PendingList'
                  = SelectSeq(PendingList, LAMBDA r : reqs[r].client_id # id)
             /\ \A r \in Pending :
                   IF reqs[r].client_id = id
                     THEN timers'[r] = "closing"
                     ELSE /\ timers'[r] = "active"
                          /\ reqs'[r].request_id = reqs[r].request_id
                          /\ reqs'[r].client_id = reqs[r].client_id]_vars

\* C9 witness: the last handler removed a client and purged a request of
\* its own, while a request of another client is still pending.
DisconnectPurgeWitness ==
    /\ last.op = "on_close"
    /\ \E r \in DOMAIN reqs :
          /\ reqs[r].client_id = last.c
          /\ resolved[r] = <<"purge">>
          /\ timers[r] = "closing"
    /\ Pending # {}

\* The deliveries of a new_host announcement in the outbox
NewHostDeliveries(out) == SelectSeq(out, IsNewHost)

\* C10 (host re-election announcement): on_close of client A sends the
\* new_host message that names the elected successor, once to every
\* remaining connection (a connection that is mid-close is skipped by
\* every send), if A was host and another connection remains; otherwise
\* it sends no new_host message.
NewHostAnnounced ==
    [][last'.op = "on_close" =>
         LET c == last'.c
             remaining == ClientList(clients_head', nodes')
         IN  IF nodes[c].is_host = 1 /\ remaining # <<>>
               THEN NewHostDeliveries(sent')
                      = [i \in DOMAIN SelectSeq(remaining,
                                        LAMBDA n : n \notin closing) |->
                           [dest |-> SelectSeq(remaining,
                                        LAMBDA n : n \notin closing)[i],
                            msg |-> RawMsg(NewHostText(
                                        nodes'[Successor(c)].name))]]
               ELSE NewHostDeliveries(sent') = <<>>]_vars

\* ------------------------------------------------------------- framing
\* The newline-terminated frames of a byte sequence, without the newline
RECURSIVE FramesOf(_, _)
FramesOf(bytes, frame) ==
    IF bytes = <<>> THEN <<>>
    ELSE IF Head(bytes) = "\n" THEN <<frame>> \o FramesOf(Tail(bytes), <<>>)
    ELSE FramesOf(Tail(bytes), Append(frame, Head(bytes)))

\* The bytes after the last newline: the frame still incomplete
RECURSIVE Incomplete(_, _)
Incomplete(bytes, frame) ==
    IF bytes = <<>> THEN frame
    ELSE IF Head(bytes) = "\n" THEN Incomplete(Tail(bytes), <<>>)
    ELSE Incomplete(Tail(bytes), Append(frame, Head(bytes)))

IsPrefix(a, b) == Len(a) <= Len(b) /\ a = SubSeq(b, 1, Len(a))

\* C11 (framing correctness): whatever the chunks the bytes arrived in,
\* the strings handed out so far are the first complete frames of the
\* stream, in order, each without its newline and none of them partial.
FramingCorrectness == IsPrefix(delivered, FramesOf(stream, <<>>))

\* The unread bytes of a buffer, from tail round to head
UnreadBytes(c) ==
    IF c.tail > c.head
      THEN Cells(c.buffer, c.tail, c.size - 1) \o Cells(c.buffer, 0, c.head - 1)
      ELSE Cells(c.buffer, c.tail, c.head - 1)

\* C12 (frame draining): when on_read returns, every complete frame
\* received so far has been handed to process_message, and the bytes of
\* the incomplete frame are the unread bytes the buffer retains.
FrameDraining ==
    ~kicked =>
       /\ Len(delivered) = Len(FramesOf(stream, <<>>))
       /\ UnreadBytes(cb) = Incomplete(stream, <<>>)

\* The bytes received and not yet handed out as a frame
Unread ==
    Len(stream) - Len(delivered)
      - (IF delivered = <<>> THEN 0
         ELSE LET n == Len(delivered)
                  total[i \in 0..n] ==
                      IF i = 0 THEN 0 ELSE total[i - 1] + Len(delivered[i])
              IN  total[n])

\* C13 (admission limit): a read that takes the unread bytes of the
\* connection over the ceiling gets the connection force-closed, and no
\* read on it changes the registry, the host or the pending list.
AdmissionLimit ==
    [][/\ Unread' > MAX_BUFFER_SIZE => kicked'
       /\ UNCHANGED <<next_client_id, clients_head, nodes, closing,
                      next_request_id, requests_head, reqs, timers>>]_vars

\* C16 (framing-buffer bound): the unread byte count stays within the
\* capacity: 0 <= amount <= size.
AmountWithinSize == 0 <= cb.amount /\ cb.amount <= cb.size

\* C17 (growth preserves content): before any read the connection may
\* make next, on_read doubles the capacity if the unread bytes and the new
\* ones would not fit, and the growth leaves the unread bytes as they were.
GrowthPreservesContent ==
    \A chunk \in Chunks :
       (~kicked /\ Len(stream) + Len(chunk) <= MaxStream) =>
          LET grown == grow_buffer(cb, Len(chunk))
          IN  /\ Len(UnreadBytes(cb)) + Len(chunk) > cb.size
                   => grown.size >= 2 * cb.size
              /\ grown.size > cb.size => UnreadBytes(grown) = UnreadBytes(cb)

\* ----------------------------------------------------------- broadcast
\* out holds msg once for every connection of live, and nothing else
DeliveredOnceTo(out, live, msg) ==
    /\ Len(out) = Cardinality(live)
    /\ \A i \in DOMAIN out : out[i].msg = msg /\ out[i].dest \in live
    /\ \A n \in live : \E i \in DOMAIN out : out[i].dest = n

\* C14 (broadcast-to-others): a message that process_message broadcasts
\* for sender S goes exactly once to every registered connection that is
\* not mid-close, except S, and leaves the registry and the pending list
\* as they were; the new_host announcement, which has no sender, goes
\* exactly once to every registered connection that is not mid-close.
BroadcastToOthers ==
    [][/\ Processes("broadcast") =>
            /\ DeliveredOnceTo(sent', (Registry \ closing) \ {last'.c},
                               stringify_json(last'.frame.doc))
            /\ StateUnchanged
       /\ (last'.op = "on_close" /\ NewHostDeliveries(sent') # <<>>) =>
            DeliveredOnceTo(NewHostDeliveries(sent'), Registry' \ closing',
                            NewHostMsg(nodes'[CHOOSE h \in Hosts' : TRUE].name))
      ]_vars

\* C14 witness: the last handler broadcast a frame of a sender with two
\* other registered connections, one of them mid-close: only the other
\* one was sent the frame.
BroadcastWitness ==
    /\ last.op = "on_read_frame"
    /\ last.frame.ok
    /\ classify(last.frame.doc) = "broadcast"
    /\ Cardinality(Registry) = 3
    /\ Cardinality(closing) = 1
    /\ Len(sent) = 1
    /\ sent[1].dest \in Registry \ (closing \cup {last.c})
    /\ sent[1].msg = stringify_json(last.frame.doc)

\* ------------------------------------------------------------ liveness
\* C15 (pending-entry liveness): armed timers firing in the end, every
\* entry put in the pending list is taken out of it again.
PendingEntryLiveness ==
    \A r \in Requests : (r \in Pending) ~> (r \notin Pending)

\* C15 witness: both requests were created and have left the list, one
\* of them by its timer firing.
PendingEntryLivenessWitness ==
    /\ next_request_id = MaxRequests
    /\ Pending = {}
    /\ \E r \in Requests : resolved[r] = <<"timeout">>

\* ------------------------------------------------- complete_request alone
\* C18 (idempotent complete): in every reachable state and for every id r,
\* issued or not, complete_request(r) changes nothing when no pending
\* entry has the id r, removes no entry with another id and changes none
\* of them, and a second complete_request(r) changes nothing more.
IdempotentComplete ==
    \A r \in 0..MaxRequests :
       LET P == PendingState
           Q == complete_request(P, r)
           ids == {P.reqs[q].request_id : q \in Pending}
       IN  /\ r \notin ids => Q = P
           /\ complete_request(Q, r) = Q
           /\ RequestList(Q.head, Q.reqs)
                = SelectSeq(PendingList, LAMBDA q : P.reqs[q].request_id # r)
           /\ \A q \in Range(RequestList(Q.head, Q.reqs)) :
                 /\ Q.reqs[q].request_id = P.reqs[q].request_id
                 /\ Q.reqs[q].client_id = P.reqs[q].client_id
                 /\ Q.timers[q] = P.timers[q]

\* C18 witness: request r was completed and freed, another request is
\* pending, and the last handler processed a second response with id r.
IdempotentCompleteWitness ==
    /\ last.op = "on_read_frame"
    /\ last.frame.ok
    /\ classify(last.frame.doc) = "to_client"
    /\ cJSON_IsNumber(RequestIdOf(last.frame))
    /\ LET r == RequestIdOf(last.frame).n
       IN  /\ r < next_request_id
           /\ resolved[r] = <<"response">>
           /\ r \notin DOMAIN reqs
    /\ Pending # {}

\* ------------------------------------------------------- host departure
\* The host request r was written to has been removed from the registry
Orphaned(r) ==
    /\ r \in DOMAIN forwarded
    /\ forwarded[r] # NULL
    /\ forwarded[r] \notin DOMAIN nodes

\* d delivers request r as process_message stamps it for the host
IsRequest(d, r) ==
    /\ HasMember(d.msg.doc, JNum("request_id", r))
    /\ cJSON_IsNumber(cJSON_GetObjectItemCaseSensitive(d.msg.doc, "from_id"))

\* on_close of the host keeps the entries of the other clients, their
\* timers armed, and no step writes a request again whose host has left
OrphansKept ==
    /\ (last'.op = "on_close" /\ nodes[last'.c].is_host = 1) =>
          \A r \in Pending :
             reqs[r].client_id # nodes[last'.c].id =>
                /\ r \in Pending'
                /\ timers'[r] = "active"
                /\ \A i \in DOMAIN sent' : ~IsRequest(sent'[i], r)
    /\ \A r \in Pending :
          Orphaned(r) => \A i \in DOMAIN sent' : ~IsRequest(sent'[i], r)

\* C19 as stated (host departure): the entries of other clients stay in
\* the list when the host leaves, are never written to the new host, and
\* leave the list only by their timer firing.
OrphansOnlyTimeOut ==
    [][/\ OrphansKept
       /\ \A r \in Pending :
             (Orphaned(r) /\ r \notin Pending') =>
                last'.op = "on_request_timeout" /\ last'.r = r]_vars

\* C19 amended: the entries of other clients stay in the list when the
\* host leaves and are never written to the new host; such an entry
\* leaves the list by its timer firing, by its originator's on_close, or
\* by a message with to_client that carries its request id.
OrphansResolvedThreeWays ==
    [][/\ OrphansKept
       /\ \A r \in Pending :
             (Orphaned(r) /\ r \notin Pending') =>
                \/ last'.op = "on_request_timeout" /\ last'.r = r
                \/ /\ last'.op = "on_close"
                   /\ nodes[last'.c].id = reqs[r].client_id
                \/ /\ Processes("to_client")
                   /\ RequestIdOf(last'.frame) = JNum("request_id", r)]_vars

\* C19 witness: the last handler removed the host that request r of
\* another client was written to; r is still pending and a new host has
\* been announced.
OrphansWitness ==
    /\ last.op = "on_close"
    /\ \E r \in Pending :
          /\ forwarded[r] = last.c
          /\ reqs[r].client_id # last.c
          /\ timers[r] = "active"
    /\ Hosts # {}
    /\ NewHostDeliveries(sent) # <<>>

\* ----------------------------------------------------- no host available
\* C20 (no host available): when a request is processed and no host can
\* receive it, the entry just created is removed at once with its timer
\* cancelled, and the sender alone is sent a "No host available" error.
NoHostAvailableError ==
    [][(Processes("to_host") /\ Hosts \subseteq closing) =>
          /\ next_request_id \notin Pending'
          /\ next_request_id \in DOMAIN timers' =>
                timers'[next_request_id] # "active"
          /\ Len(sent') = 1
          /\ sent'[1].dest = last'.c
          /\ HasMember(sent'[1].msg.doc,
                       JStr("message", "No host available"))]_vars

\* ------------------------------------------------------- malformed frame
\* C21 (malformed frame): processing a frame that fails to decode sends
\* nothing, changes neither the registry, the host flag, the names nor the
\* pending list, allocates no request id and leaves the sender open.
MalformedDropped ==
    [][(last'.op = "on_read_frame" /\ ~last'.frame.ok) =>
          /\ sent' = <<>>
          /\ UNCHANGED <<next_client_id, clients_head, nodes, closing,
                         next_request_id, requests_head, reqs, timers,
                         resolved>>]_vars

\* C21 witness: the last handler processed a frame that failed to decode,
\* sent by a client that is not the host, with another client connected
\* and a request pending.
MalformedDroppedWitness ==
    /\ last.op = "on_read_frame"
    /\ ~last.frame.ok
    /\ last.c \in Registry \ Hosts
    /\ last.c \notin closing
    /\ Cardinality(Registry \ closing) >= 2
    /\ Pending # {}
    /\ sent = <<>>

\* ------------------------------------------------------- unrouted events
\* The step processes, for a sender that is not the host, a message that
\* is no name assignment, no listed broadcast event, and has no request_id
ImplicitFromNonHost ==
    /\ last'.op = "on_read_frame"
    /\ last'.frame \in ImplicitFrames
    /\ last'.c \notin Hosts

\* C22 as stated (implicit request routing): such a message creates a
\* pending entry for its sender and is delivered to the host alone, never
\* to the other connections.
ImplicitRequestToHost ==
    [][ImplicitFromNonHost =>
          /\ \E r \in Requests : RequestCreated(last'.c, r)
          /\ \A i \in DOMAIN sent' : sent'[i].dest \in Hosts]_vars

\* C22 amended: such a message is broadcast as it is, once to every
\* registered connection that is not mid-close except its sender; it
\* creates no pending entry and changes nothing else.
ImplicitBroadcast ==
    [][ImplicitFromNonHost =>
          /\ DeliveredOnceTo(sent', (Registry \ closing) \ {last'.c},
                             stringify_json(last'.frame.doc))
          /\ StateUnchanged]_vars

\* C22 witness: the last handler processed such a message of a client
\* that is not the host, with the host and one more client connected:
\* both were sent it and no request is pending.
ImplicitBroadcastWitness ==
    /\ last.op = "on_read_frame"
    /\ last.frame \in ImplicitFrames
    /\ last.c \in Registry \ Hosts
    /\ Cardinality(Registry) = 3
    /\ closing = {}
    /\ Len(sent) = 2
    /\ \E i \in DOMAIN sent : sent[i].dest \in Registry \ (Hosts \cup {last.c})
    /\ Pending = {}

\* -------------------------------------------------- requests of the host
\* C23 (requests come from non-hosts only): a step puts an entry in the
\* pending list only when it processes a message of a sender that is not
\* the host; a message of the host creates no entry, allocates no request
\* id and is never written back to the host as a request with from_id.
RequestsFromNonHostsOnly ==
    [][/\ Pending' \ Pending # {} =>
             last'.op = "on_read_frame" /\ last'.c \notin Hosts
       /\ (last'.op = "on_read_frame" /\ last'.c \in Hosts) =>
             /\ next_request_id' = next_request_id
             /\ \A i \in DOMAIN sent' :
                   sent'[i].dest = last'.c =>
                      ~cJSON_IsNumber(cJSON_GetObjectItemCaseSensitive(
                                          sent'[i].msg.doc, "from_id"))]_vars

\* ------------------------------------------------------ join announcement
IsUserJoined(d) == HasMember(d.msg.doc, JStr("event", "user_joined"))
NewName(frame) == cJSON_GetObjectItemCaseSensitive(frame.doc, "set_name").s
Others(c) == (Registry \ closing) \ {c}

\* C24 as stated (join announcement): accepting a connection sends
\* nothing; the first name assignment of a connection broadcasts
\* user_joined to the others, every later one name_changed, and a name
\* assignment changes nothing but the name.
JoinAnnouncedAtNaming ==
    [][/\ last'.op = "on_new_connection" => sent' = <<>>
       /\ Processes("set_name") =>
             /\ DeliveredOnceTo(sent', Others(last'.c),
                   IF nodes[last'.c].name = DefaultName
                     THEN UserJoined(last'.c, nodes')
                     ELSE NameChanged(nodes[last'.c].id, NewName(last'.frame)))
             /\ nodes' = [nodes EXCEPT ![last'.c].name = NewName(last'.frame)]
             /\ UNCHANGED <<next_client_id, clients_head, closing,
                            next_request_id, requests_head, reqs, timers,
                            resolved>>]_vars

\* C24 amended: user_joined for a connection is broadcast to the others
\* once, when the connection is accepted, and by no later step; every
\* name assignment, the first included, broadcasts name_changed to the
\* others and changes nothing but the name.
JoinAnnouncedAtAccept ==
    [][/\ last'.op = "on_new_connection" =>
             DeliveredOnceTo(sent', (Registry' \ closing') \ {clients_head'},
                             UserJoined(clients_head', nodes'))
       /\ last'.op # "on_new_connection" =>
             \A i \in DOMAIN sent' : ~IsUserJoined(sent'[i])
       /\ Processes("set_name") =>
             /\ DeliveredOnceTo(sent', Others(last'.c),
                   NameChanged(nodes[last'.c].id, NewName(last'.frame)))
             /\ nodes' = [nodes EXCEPT ![last'.c].name = NewName(last'.frame)]
             /\ UNCHANGED <<next_client_id, clients_head, closing,
                            next_request_id, requests_head, reqs, timers,
                            resolved>>]_vars

\* C24 witness: the last handler processed a name assignment of a client
\* with two others connected; both were sent name_changed and the two
\* others still have the name given at accept.
JoinAnnouncedWitness ==
    /\ last.op = "on_read_frame"
    /\ last.frame.ok
    /\ classify(last.frame.doc) = "set_name"
    /\ Cardinality(Registry) = 3
    /\ closing = {}
    /\ nodes[last.c].name = NewName(last.frame)
    /\ \A n \in Registry \ {last.c} : nodes[n].name = DefaultName
    /\ Len(sent) = 2
    /\ \A i \in DOMAIN sent :
          sent[i].msg = NameChanged(last.c, NewName(last.frame))

\* ------------------------------------------------------- the oldest hosts
\* C25 (host is the oldest connection): whenever the registry is not
\* empty, the host is the registered node with the smallest id, which is
\* the tail of the client list; a node flagged host has no next node, so
\* remove_client never hands over to node->next.
HostIsOldest ==
    /\ Registry # {} =>
          \E h \in Hosts :
             /\ \A n \in Registry : nodes[h].id <= nodes[n].id
             /\ ClientList(clients_head, nodes)[Cardinality(Registry)] = h
    /\ \A n \in Registry : nodes[n].is_host = 1 => nodes[n].next = NULL

\* C25 witness: the last handler removed the first host while two newer
\* clients were registered; the older of the two is host and tail.
HostIsOldestWitness ==
    /\ last.op = "on_close"
    /\ last.c = 0
    /\ Registry = {1, 2}
    /\ Hosts = {1}
    /\ clients_head = 2
    /\ nodes[2].next = 1

\* ------------------------------------------------------ no orphan entries
RegisteredIds == {nodes[n].id : n \in Registry}

\* C26 (no orphan pending entries): the client_id of every entry in the
\* pending list, and of every entry whose timer is armed, is the id of a
\* node in the registry, so on_request_timeout always finds its requester.
NoOrphanPending ==
    /\ \A r \in Pending : reqs[r].client_id \in RegisteredIds
    /\ \A r \in DOMAIN timers :
          timers[r] = "active" => reqs[r].client_id \in RegisteredIds

\* C26 witness: one requester has been removed and its entry purged;
\* another is mid-close, still registered, with its entry pending and
\* its timer armed.
NoOrphanPendingWitness ==
    /\ \E r \in DOMAIN reqs :
          /\ resolved[r] = <<"purge">>
          /\ reqs[r].client_id \notin RegisteredIds
    /\ \E r \in Pending :
          /\ reqs[r].client_id \in closing
          /\ timers[r] = "active"
====
